---------------------------- MODULE Spec2Model ----------------------------
(***************************************************************************)
(* The state-transition engine of the Tetris clone (state.ts, utils.ts):   *)
(* the State record folded by scan(reduceState, initialState) over the     *)
(* merged stream of Tick / MoveLeft / MoveRight / MoveDown / Rotate /      *)
(* HardDrop / Reset actions.                                               *)
(***************************************************************************)
EXTENDS Integers, Sequences, FiniteSets, TLC

(***************************************************************************)
(* Constants (state.ts, Constants)                                         *)
(***************************************************************************)
GRID_WIDTH == 10
GRID_HEIGHT == 20
MAIN_GRID_X == 4
MAIN_GRID_Y == -2
PREVIEW_GRID_X == 3
PREVIEW_GRID_Y == 1
MAX_SCORE_PER_LEVEL == 1000
InitialDropTick == 50      \* INITIAL_DROP_TICK / BASE_TICK_RATE_MS = 500 / 10

(***************************************************************************)
(* calculateDropTick: Math.round(500 * 5 ** (-0.1 * (level - 1)) / 10),    *)
(* tabulated for level 1..33 (the value is 0 from level 30 on).            *)
(***************************************************************************)
DropTickTable ==
  << 50, 43, 36, 31, 26, 22, 19, 16, 14, 12, 10, 9, 7, 6, 5, 4, 4, 3, 3, 2,
     2, 2, 1, 1, 1, 1, 1, 1, 1, 0, 0, 0, 0 >>

calculateDropTick(level) ==
  IF level <= Len(DropTickTable) THEN DropTickTable[level] ELSE 0

(***************************************************************************)
(* RNG (utils.ts).  hash is (a * seed + c) % m evaluated in IEEE-754       *)
(* doubles: a * seed exceeds 2^53, so the product and the sum are each     *)
(* rounded to 53 significant bits (ties to even) before the exact          *)
(* remainder.  The arithmetic is carried out on base-2^11 limbs, least     *)
(* significant first, so that no intermediate value leaves 32 bits.        *)
(***************************************************************************)
LimbBase == 2048

Pow2(n) == <<1, 2, 4, 8, 16, 32, 64, 128, 256, 512, 1024, 2048>>[n + 1]

\* a = 1103515245 = 263 * 2^22 + 201 * 2^11 + 1645
RNG_a == <<1645, 201, 263>>
\* c = 12345 = 6 * 2^11 + 57
RNG_c == <<57, 6>>

RECURSIVE Carry(_, _)
\* Propagates carries through a limb sequence.
Carry(d, c) ==
  IF d = <<>> THEN <<>>
  ELSE <<(Head(d) + c) % LimbBase>> \o Carry(Tail(d), (Head(d) + c) \div LimbBase)

RECURSIVE BitLen(_)
BitLen(v) == IF v = 0 THEN 0 ELSE 1 + BitLen(v \div 2)

RECURSIVE LimbBits(_, _)
\* Number of significant bits of the value of limbs l[1..i].
LimbBits(l, i) ==
  IF i = 0 THEN 0
  ELSE IF l[i] > 0 THEN 11 * (i - 1) + BitLen(l[i])
  ELSE LimbBits(l, i - 1)

\* Rounds a non-negative integer (as limbs) to the nearest double, ties to even.
RoundDouble(l) ==
  LET g == LimbBits(l, Len(l)) - 53 IN
  IF g <= 0 THEN l
  ELSE LET low  == l[1] % Pow2(g)
           half == Pow2(g - 1)
           up   == low > half \/ (low = half /\ (l[1] \div Pow2(g)) % 2 = 1)
       IN Carry(<<l[1] - low + (IF up THEN Pow2(g) ELSE 0)>> \o Tail(l), 0)

hash(seed) ==
  LET s0 == seed % LimbBase
      s1 == (seed \div LimbBase) % LimbBase
      s2 == seed \div (LimbBase * LimbBase)
      a0 == RNG_a[1]
      a1 == RNG_a[2]
      a2 == RNG_a[3]
      prod == RoundDouble(Carry(<< a0 * s0,
                                   a0 * s1 + a1 * s0,
                                   a0 * s2 + a1 * s1 + a2 * s0,
                                   a1 * s2 + a2 * s1,
                                   a2 * s2,
                                   0 >>, 0))
      sum == RoundDouble(Carry(<< prod[1] + RNG_c[1], prod[2] + RNG_c[2],
                                  prod[3], prod[4], prod[5], prod[6] >>, 0))
  IN  \* % m with m = 2^31: the low 31 bits
      (sum[3] % 512) * (LimbBase * LimbBase) + sum[2] * LimbBase + sum[1]

scale(h) == h % 7

(***************************************************************************)
(* Piece factory (utils.ts)                                                *)
(***************************************************************************)
Colours == <<"yellow", "blue", "orange", "red", "green", "purple", "cyan">>

\* the id `${group}${n}` of a falling or preview cube
GroupId(group, n) == [g |-> group, a |-> n, b |-> 0]
\* the id `x${x}y${y}` of a settled cube
CoordId(x, y) == [g |-> "xy", a |-> x, b |-> y]

createTetromino(colour, coordinates, group) ==
  [i \in 1..4 |-> [x |-> coordinates[i][1], y |-> coordinates[i][2],
                   colour |-> colour, id |-> GroupId(group, i)]]

\* The seven coordinate tables, in the order of generateTetromino's array.
TetrominoCoordinates(index, x, y) ==
  CASE index = 0 -> << <<x, y>>,     <<x + 1, y>>,     <<x, y + 1>>,     <<x + 1, y + 1>> >>
    [] index = 1 -> << <<x, y + 1>>, <<x + 1, y + 1>>, <<x - 1, y + 1>>, <<x - 1, y>> >>
    [] index = 2 -> << <<x, y + 1>>, <<x + 1, y + 1>>, <<x - 1, y + 1>>, <<x + 1, y>> >>
    [] index = 3 -> << <<x, y>>,     <<x - 1, y>>,     <<x, y + 1>>,     <<x + 1, y + 1>> >>
    [] index = 4 -> << <<x, y>>,     <<x + 1, y>>,     <<x, y + 1>>,     <<x - 1, y + 1>> >>
    [] index = 5 -> << <<x, y + 1>>, <<x + 1, y + 1>>, <<x - 1, y + 1>>, <<x, y>> >>
    [] index = 6 -> << <<x, y>>,     <<x - 1, y>>,     <<x + 1, y>>,     <<x + 2, y>> >>

generateTetromino(index, x, y, group) ==
  createTetromino(Colours[scale(index) + 1],
                  TetrominoCoordinates(scale(index), x, y), group)

\* findIndexByColour answering the index of the next colour.
findIndexByColour_Next(colour) ==
  (CHOOSE i \in 1..Len(Colours) : Colours[i] = colour) % Len(Colours)

findIndexByColour(colour) ==
  (CHOOSE i \in 1..7 : Colours[i] = colour) - 1


(***************************************************************************)
(* Grid geometry and collision (state.ts)                                  *)
(***************************************************************************)
isCollide(s) ==
  \E i \in 1..Len(s.currentCubes) :
    \/ \E j \in 1..Len(s.mainGridCubes) :
         /\ s.mainGridCubes[j].x = s.currentCubes[i].x
         /\ s.mainGridCubes[j].y = s.currentCubes[i].y
    \/ s.currentCubes[i].y >= GRID_HEIGHT

isOutOfBound(s) ==
  \E i \in 1..Len(s.currentCubes) :
    \/ s.currentCubes[i].x < 0
    \/ s.currentCubes[i].x >= GRID_WIDTH
    \/ s.currentCubes[i].y >= GRID_HEIGHT

\* isValid without the bounds test.
isValid_IgnoresBounds(s) == ~isCollide(s) /\ ~s.gameEnd

isValid(s) == ~isCollide(s) /\ ~isOutOfBound(s) /\ ~s.gameEnd

generateNewCubes(currentCubes, relativeX, relativeY, id) ==
  LET f(cube) == [x |-> cube.x + relativeX,
                  y |-> cube.y + relativeY,
                  colour |-> cube.colour,
                  id |-> IF id THEN CoordId(cube.x + relativeX, cube.y + relativeY)
                         ELSE cube.id]
  IN [i \in 1..Len(currentCubes) |-> f(currentCubes[i])]

\* Row `index` of convertTo2D(cubes): the cubes with that y, in array order.
\* The grid has rows 0..GRID_HEIGHT-1 only; cubes with other y are in no row.
convertTo2D(cubes) ==
  [index \in 0..(GRID_HEIGHT - 1) |->
     LET inRow(cube) == cube.y = index IN SelectSeq(cubes, inRow)]

\* findLinesToClear reporting the lowest full row only.
findLinesToClear_LowestOnly(grid) ==
  LET full == { index \in DOMAIN grid : Len(grid[index]) = GRID_WIDTH }
  IN IF full = {} THEN <<>>
     ELSE << CHOOSE index \in full : \A other \in full : other <= index >>

\* findLinesToClear reporting the full rows bottom row first.
findLinesToClear_Descending(grid) ==
  LET full == { index \in DOMAIN grid : Len(grid[index]) = GRID_WIDTH }
      nth(n) == CHOOSE index \in full :
                  Cardinality({ other \in full : other > index }) = n - 1
  IN [n \in 1..Cardinality(full) |-> grid[nth(n)][1].y]

\* grid.map((row) => (row.length === GRID_WIDTH ? row[0].y : -1))
\*     .filter((row) => row !== -1):
\* the y of every row of length GRID_WIDTH, in ascending row order.
findLinesToClear(grid) ==
  LET full == { index \in DOMAIN grid : Len(grid[index]) = GRID_WIDTH }
      nth(n) == CHOOSE index \in full :
                  Cardinality({ other \in full : other < index }) = n - 1
  IN [n \in 1..Cardinality(full) |-> grid[nth(n)][1].y]

clearLines(cubes, line) ==
  LET keep(cube) == cube.y # line
      shift(cube) == IF cube.y <= line
                     THEN [cube EXCEPT !.y = cube.y + 1,
                                       !.id = CoordId(cube.x, cube.y + 1)]
                     ELSE cube
      kept == SelectSeq(cubes, keep)
  IN [i \in 1..Len(kept) |-> shift(kept[i])]

RECURSIVE ReduceClearLines(_, _)
\* linesToClear.reduce(clearLines, cubes)
ReduceClearLines(linesToClear, cubes) ==
  IF linesToClear = <<>> THEN cubes
  ELSE ReduceClearLines(Tail(linesToClear), clearLines(cubes, Head(linesToClear)))

\* shouldUpdateGrid without the test for an empty active piece.
shouldUpdateGrid_OnlyOnCollide(s) == isCollide(s) /\ ~s.gameEnd

shouldUpdateGrid(s) ==
  (isCollide(s) \/ Len(s.currentCubes) = 0) /\ ~s.gameEnd

findMinMaxNum(minMaxArr, num) ==
  << IF minMaxArr[1] < num THEN minMaxArr[1] ELSE num,
     IF minMaxArr[2] > num THEN minMaxArr[2] ELSE num >>

RECURSIVE MinMaxFrom(_, _, _)
MinMaxFrom(cubes, i, acc) ==
  IF i > Len(cubes) THEN acc
  ELSE MinMaxFrom(cubes, i + 1, findMinMaxNum(acc, cubes[i].x))

\* cubes.reduce((acc, {x}) => findMinMaxNum(acc, x), [GRID_WIDTH, -1])
MinMaxX(cubes) == MinMaxFrom(cubes, 1, <<GRID_WIDTH, -1>>)

\* calculateRotation turning about the point right of the pivot.
calculateRotation_AboutNeighbour(pivotPointPos, currentPos) ==
  LET relativeX == currentPos[1] - (pivotPointPos[1] + 1)
      relativeY == currentPos[2] - pivotPointPos[2]
  IN << pivotPointPos[1] + 1 - relativeY, pivotPointPos[2] + relativeX >>

calculateRotation(pivotPointPos, currentPos) ==
  LET relativeX == currentPos[1] - pivotPointPos[1]
      relativeY == currentPos[2] - pivotPointPos[2]
      rotatedX == -relativeY
      rotatedY == relativeX
  IN << pivotPointPos[1] + rotatedX, pivotPointPos[2] + rotatedY >>

\* range(start, end): start..end as an array; empty when end < start.
range(start, end) ==
  [i \in 1..(IF end - start + 1 > 0 THEN end - start + 1 ELSE 0) |-> start + i - 1]

(***************************************************************************)
(* The initial State, for a given initialRNG (state.ts, initialState).     *)
(***************************************************************************)
initialState(initialRNG) ==
  [ gameTick |-> 0,
    currentTick |-> 0,
    dropTick |-> InitialDropTick,
    currentCubes |-> <<>>,
    mainGridCubes |-> <<>>,
    previousMainGridCubes |-> <<>>,
    previewGridCubes |->
      generateTetromino(initialRNG, PREVIEW_GRID_X, PREVIEW_GRID_Y, "p"),
    holdOnCooldown |-> FALSE,
    updateGrid |-> FALSE,
    rng |-> hash(initialRNG),
    level |-> 1,
    score |-> 0,
    linesCleared |-> 0,
    highScore |-> 0,
    gameEnd |-> FALSE ]

\* A high score that is always the score of the step.
HighScoreOf_FollowsScore(s, newScore) == newScore

\* The highScore of GameTick.apply and HardDrop.apply.
HighScoreOf(s, newScore) ==
  IF s.highScore < newScore THEN newScore ELSE s.highScore

(***************************************************************************)
(* The actions' apply functions (state.ts)                                 *)
(***************************************************************************)
\* Math.floor(newScore / Constants.MAX_SCORE_PER_LEVEL) + 1
\* The level rising only once the score exceeds a multiple of
\* MAX_SCORE_PER_LEVEL.
LevelOf_Late(newScore) ==
  IF newScore % MAX_SCORE_PER_LEVEL = 0 /\ newScore > 0
  THEN newScore \div MAX_SCORE_PER_LEVEL
  ELSE (newScore \div MAX_SCORE_PER_LEVEL) + 1

LevelOf(newScore) == (newScore \div MAX_SCORE_PER_LEVEL) + 1

\* The landing bookkeeping GameTick.apply and HardDrop.apply share: line
\* clearing of updatedMainGridCubes, the new score and the game-over test.
Landing(s, updatedMainGridCubes) ==
  LET mainGridCubes2D == convertTo2D(updatedMainGridCubes)
      linesToClear == findLinesToClear(mainGridCubes2D)
      finalMainGridCubes ==
        IF Len(linesToClear) > 0
        THEN ReduceClearLines(linesToClear, updatedMainGridCubes)
        ELSE updatedMainGridCubes
      newScore == s.score + Len(linesToClear) * 100
      hasNegativeY(cube) == cube.y < 0
  IN [ linesToClear |-> linesToClear,
       finalMainGridCubes |-> finalMainGridCubes,
       newScore |-> newScore,
       gameOver |-> Len(SelectSeq(finalMainGridCubes, hasNegativeY)) > 0 ]

GameTickApply(s) ==
  LET newCubes == generateNewCubes(s.currentCubes, 0, 1, FALSE)
      newState == [s EXCEPT !.currentCubes = newCubes]
      updatedID == generateNewCubes(s.currentCubes, 0, 0, TRUE)
      updatedMainGridCubes ==
        IF isCollide(newState) THEN s.mainGridCubes \o updatedID
        ELSE s.mainGridCubes
      l == Landing(s, updatedMainGridCubes)
      spawn == shouldUpdateGrid(newState)
  IN [ s EXCEPT
       !.gameTick = s.gameTick + 1,
       !.currentCubes =
          IF spawn
          THEN generateTetromino(findIndexByColour(s.previewGridCubes[1].colour),
                                 MAIN_GRID_X, MAIN_GRID_Y, "c")
          ELSE newCubes,
       !.mainGridCubes = IF s.gameEnd THEN s.mainGridCubes ELSE l.finalMainGridCubes,
       !.previousMainGridCubes = s.mainGridCubes,
       !.previewGridCubes =
          IF spawn
          THEN generateTetromino(scale(s.rng), PREVIEW_GRID_X, PREVIEW_GRID_Y, "p")
          ELSE s.previewGridCubes,
       !.holdOnCooldown = IF spawn THEN FALSE ELSE s.holdOnCooldown,
       !.updateGrid = spawn,
       !.rng = IF spawn THEN hash(s.rng) ELSE s.rng,
       !.level = LevelOf(l.newScore),
       !.score = l.newScore,
       !.linesCleared = s.linesCleared + Len(l.linesToClear),
       !.highScore = HighScoreOf(s, l.newScore),
       !.gameEnd = l.gameOver ]

\* Tick.apply rolling over one tick late, when currentTick has reached
\* dropTick.
TickApply_RollsLate(s) ==
  LET newCurrentTick == IF s.currentTick = s.dropTick THEN 0
                        ELSE s.currentTick + 1
  IN IF newCurrentTick = 0
     THEN GameTickApply([s EXCEPT !.currentTick = newCurrentTick,
                                  !.dropTick = calculateDropTick(s.level),
                                  !.updateGrid = FALSE])
     ELSE [s EXCEPT !.currentTick = newCurrentTick, !.updateGrid = FALSE]

\* Tick.apply counting the Ticks without ever applying a GameTick.
TickApply_SkipsGameTick(s) ==
  LET newCurrentTick == IF s.currentTick + 1 = s.dropTick THEN 0
                        ELSE s.currentTick + 1
  IN IF newCurrentTick = 0
     THEN [s EXCEPT !.currentTick = newCurrentTick,
                    !.dropTick = calculateDropTick(s.level),
                    !.updateGrid = FALSE]
     ELSE [s EXCEPT !.currentTick = newCurrentTick, !.updateGrid = FALSE]

TickApply(s) ==
  LET newCurrentTick == IF s.currentTick + 1 = s.dropTick THEN 0
                        ELSE s.currentTick + 1
      newState ==
        IF newCurrentTick = 0
        THEN [s EXCEPT !.currentTick = newCurrentTick,
                       !.dropTick = calculateDropTick(s.level),
                       !.updateGrid = FALSE]
        ELSE [s EXCEPT !.currentTick = newCurrentTick,
                       !.updateGrid = FALSE]
  IN IF newCurrentTick = 0 THEN GameTickApply(newState) ELSE newState

\* The body MoveLeft.apply, MoveRight.apply and MoveDown.apply share.
MoveApply(s, relativeX, relativeY) ==
  LET newCubes == generateNewCubes(s.currentCubes, relativeX, relativeY, FALSE)
      newState == [s EXCEPT !.currentCubes = newCubes]
  IN [s EXCEPT !.currentCubes = IF isValid(newState) THEN newCubes
                                ELSE s.currentCubes,
               !.updateGrid = FALSE]

MoveLeftApply(s) == MoveApply(s, -1, 0)
MoveRightApply(s) == MoveApply(s, 1, 0)
MoveDownApply(s) == MoveApply(s, 0, 1)

\* The wall kick at the left wall only.
WallKick_LeftOnly(newCubes) ==
  LET minX == MinMaxX(newCubes)[1]
  IN IF minX < 0 THEN -minX ELSE 0

\* The x shift of Rotate.apply's wall kick.
WallKick(newCubes) ==
  LET minMax == MinMaxX(newCubes)
      minX == minMax[1]
      maxX == minMax[2]
  IN IF minX < 0 THEN -minX
     ELSE IF maxX >= GRID_WIDTH THEN GRID_WIDTH - maxX - 1
     ELSE 0

\* newCubes of Rotate.apply: every cube turned about the first one.
RotatedCubes(s) ==
  LET initialPos == << s.currentCubes[1].x, s.currentCubes[1].y >>
  IN [i \in 1..Len(s.currentCubes) |->
        LET newRotation == calculateRotation(initialPos,
                             << s.currentCubes[i].x, s.currentCubes[i].y >>)
        IN [s.currentCubes[i] EXCEPT !.x = newRotation[1], !.y = newRotation[2]]]

\* Rotate.apply clearing the render hint also when it does not rotate.
RotateApply_AlwaysClearsHint(s) ==
  IF Len(s.currentCubes) = 0 \/ s.currentCubes[1].colour = "yellow"
  THEN [s EXCEPT !.updateGrid = FALSE]
  ELSE
    LET adjustedCubes == generateNewCubes(RotatedCubes(s),
                                          WallKick(RotatedCubes(s)), 0, FALSE)
        newState == [s EXCEPT !.currentCubes = adjustedCubes]
    IN [s EXCEPT !.currentCubes = IF isCollide(newState) THEN s.currentCubes
                                  ELSE adjustedCubes,
                 !.updateGrid = FALSE]

RotateApply(s) ==
  IF Len(s.currentCubes) = 0 \/ s.currentCubes[1].colour = "yellow" THEN s
  ELSE
    LET initialPos == << s.currentCubes[1].x, s.currentCubes[1].y >>
        rot(cube) ==
          LET newRotation == calculateRotation(initialPos, <<cube.x, cube.y>>)
          IN [x |-> newRotation[1], y |-> newRotation[2],
              colour |-> cube.colour, id |-> cube.id]
        newCubes == [i \in 1..Len(s.currentCubes) |-> rot(s.currentCubes[i])]
        relativeX == WallKick(newCubes)
        adjustedCubes == generateNewCubes(newCubes, relativeX, 0, FALSE)
        newState == [s EXCEPT !.currentCubes = adjustedCubes]
        finalCubes == IF isCollide(newState) THEN s.currentCubes ELSE adjustedCubes
    IN [s EXCEPT !.currentCubes = finalCubes, !.updateGrid = FALSE]

RECURSIVE HighestYFrom(_, _, _, _)
\* cubeArr.reduce((acc, {y}) => (y > acc ? y : acc), acc) over the current
\* cubes with the given x.
HighestYFrom(cubes, x, i, acc) ==
  IF i > Len(cubes) THEN acc
  ELSE HighestYFrom(cubes, x, i + 1,
         IF cubes[i].x = x /\ cubes[i].y > acc THEN cubes[i].y ELSE acc)

\* cubeArr.reduce((acc, {x, y}) => y < acc && y > highestCurrentYs[x - minX]
\* ? y : acc, GRID_HEIGHT) over the settled cubes of column x: the least y
\* below GRID_HEIGHT and beyond `above`, or GRID_HEIGHT when there is none.
LowestGridY(cubes, x, above) ==
  LET ys == { cubes[i].y : i \in { j \in 1..Len(cubes) :
                  cubes[j].x = x /\ cubes[j].y < GRID_HEIGHT /\ cubes[j].y > above } }
  IN IF ys = {} THEN GRID_HEIGHT
     ELSE CHOOSE y \in ys : \A z \in ys : y <= z

RECURSIVE RelativeYFrom(_, _, _, _)
\* lowestGridYs.reduce((acc, y, index) => min(acc, y - highestCurrentYs[index] - 1), acc)
RelativeYFrom(lowestGridYs, highestCurrentYs, i, acc) ==
  IF i > Len(lowestGridYs) THEN acc
  ELSE LET newY == lowestGridYs[i] - highestCurrentYs[i] - 1
       IN RelativeYFrom(lowestGridYs, highestCurrentYs, i + 1,
                        IF newY < acc THEN newY ELSE acc)

\* The start value of the highest-y reduction over a column of the piece.
HighestYSeed == MAIN_GRID_Y

\* The distance HardDrop.apply moves the current cubes down.
HardDropDistance(s) ==
  LET minMax == MinMaxX(s.currentCubes)
      columns == range(minMax[1], minMax[2])
      highestCurrentYs ==
        [k \in 1..Len(columns) |->
           HighestYFrom(s.currentCubes, columns[k], 1, HighestYSeed)]
      lowestGridYs ==
        [k \in 1..Len(columns) |->
           LowestGridY(s.mainGridCubes, columns[k], highestCurrentYs[k])]
  IN RelativeYFrom(lowestGridYs, highestCurrentYs, 1, GRID_HEIGHT)

HardDropApply(s) ==
  LET relativeY == HardDropDistance(s)
      newCubes == generateNewCubes(s.currentCubes, 0, relativeY, TRUE)
      updatedMainGridCubes == s.mainGridCubes \o newCubes
      l == Landing(s, updatedMainGridCubes)
  IN [ s EXCEPT
       !.currentCubes =
          generateTetromino(findIndexByColour(s.previewGridCubes[1].colour),
                            MAIN_GRID_X, MAIN_GRID_Y, "c"),
       !.mainGridCubes = IF s.gameEnd THEN s.mainGridCubes ELSE l.finalMainGridCubes,
       !.previousMainGridCubes = s.mainGridCubes,
       !.previewGridCubes =
          generateTetromino(scale(s.rng), PREVIEW_GRID_X, PREVIEW_GRID_Y, "p"),
       !.holdOnCooldown = FALSE,
       !.updateGrid = TRUE,
       !.rng = hash(s.rng),
       !.level = LevelOf(l.newScore),
       !.score = l.newScore,
       !.linesCleared = s.linesCleared + Len(l.linesToClear),
       !.highScore = HighScoreOf(s, l.newScore),
       !.gameEnd = l.gameOver ]

\* Reset.apply starting from the initial State's highScore.
ResetApply_ClearsHighScore(s) ==
  IF s.gameEnd
  THEN [ s EXCEPT
         !.gameTick = 0,
         !.currentTick = 0,
         !.currentCubes = <<>>,
         !.mainGridCubes = <<>>,
         !.previousMainGridCubes = s.mainGridCubes,
         !.updateGrid = FALSE,
         !.level = 1,
         !.score = 0,
         !.linesCleared = 0,
         !.highScore = 0,
         !.gameEnd = FALSE ]
  ELSE s

ResetApply(s) ==
  IF s.gameEnd
  THEN [ s EXCEPT
         !.gameTick = 0,
         !.currentTick = 0,
         !.currentCubes = <<>>,
         !.mainGridCubes = <<>>,
         !.previousMainGridCubes = s.mainGridCubes,
         !.previewGridCubes = s.previewGridCubes,
         !.updateGrid = FALSE,
         !.level = 1,
         !.score = 0,
         !.linesCleared = 0,
         !.gameEnd = FALSE ]
  ELSE s

\* reduceState(s, a) == a.apply(s), with the action named by a string.
reduceState(s, a) ==
  CASE a = "Tick" -> TickApply(s)
    [] a = "MoveLeft" -> MoveLeftApply(s)
    [] a = "MoveRight" -> MoveRightApply(s)
    [] a = "MoveDown" -> MoveDownApply(s)
    [] a = "Rotate" -> RotateApply(s)
    [] a = "HardDrop" -> HardDropApply(s)
    [] a = "Reset" -> ResetApply(s)

(***************************************************************************)
(* The action stream.  main.ts merges the timer and the key observables    *)
(* and folds them with scan(reduceState, initialState): any sequence of    *)
(* the seven actions can arrive.  The play explored here follows one of    *)
(* the Openings from the initial state and may leave it at any point for   *)
(* up to MaxFree arbitrary actions.                                        *)
(***************************************************************************)
MaxFree == 3

Actions == {"Tick", "MoveLeft", "MoveRight", "MoveDown", "Rotate", "HardDrop", "Reset"}

\* n arrivals of action a in a row
Run(a, n) == [i \in 1..n |-> a]

Openings ==
  << \* the second piece, rotated twice at spawn height, is hard-dropped; the
     \* stack then grows to game over; ticks, a rotation and a move arrive
     \* while the game is over; Reset; the timer spawns the next piece
     [ initialRNG |-> 8,
       script |->
            Run("HardDrop", 2) \o Run("Rotate", 2) \o Run("HardDrop", 11)
         \o Run("Tick", 50) \o Run("Rotate", 1) \o Run("MoveLeft", 1)
         \o Run("Reset", 1) \o Run("Tick", 50) \o Run("MoveRight", 1)
         \o Run("HardDrop", 1) ],
     \* a stack in columns 2 and 3 reaches row -1 while row 18 lacks only
     \* columns 4 and 5; hard drops arrive after the game is over
     [ initialRNG |-> 10,
       script |->
            Run("HardDrop", 1) \o Run("Rotate", 1) \o Run("MoveLeft", 1)
         \o Run("HardDrop", 1) \o Run("Rotate", 1) \o Run("MoveLeft", 2)
         \o Run("HardDrop", 1) \o Run("Rotate", 1) \o Run("MoveLeft", 1)
         \o Run("HardDrop", 1) \o Run("MoveRight", 3) \o Run("HardDrop", 1)
         \o Run("Rotate", 1) \o Run("MoveLeft", 2) \o Run("HardDrop", 1)
         \o Run("Rotate", 1) \o Run("MoveLeft", 1) \o Run("HardDrop", 1)
         \o Run("Rotate", 1) \o Run("MoveLeft", 2) \o Run("HardDrop", 1)
         \o Run("MoveLeft", 4) \o Run("HardDrop", 1) \o Run("Rotate", 1)
         \o Run("MoveLeft", 2) \o Run("HardDrop", 1) \o Run("Rotate", 1)
         \o Run("MoveLeft", 1) \o Run("HardDrop", 3) \o Run("Reset", 1)
         \o Run("HardDrop", 1) \o Run("MoveLeft", 1) \o Run("MoveDown", 1)
         \o Run("Tick", 50) ],
     \* the timer spawns and lowers the first piece; ten rows are cleared
     \* (four by a piece the timer lands, then two, three and one by hard
     \* drops); the timer runs on at level 2
     [ initialRNG |-> 2668,
       script |->
            Run("Tick", 100) \o Run("MoveLeft", 3) \o Run("HardDrop", 1)
         \o Run("Rotate", 2) \o Run("MoveLeft", 2) \o Run("HardDrop", 1)
         \o Run("MoveRight", 1) \o Run("HardDrop", 1) \o Run("MoveRight", 1)
         \o Run("HardDrop", 2) \o Run("MoveLeft", 3) \o Run("HardDrop", 1)
         \o Run("Rotate", 1) \o Run("MoveLeft", 4) \o Run("HardDrop", 1)
         \o Run("MoveLeft", 1) \o Run("HardDrop", 1) \o Run("MoveRight", 3)
         \o Run("HardDrop", 1) \o Run("Rotate", 2) \o Run("MoveLeft", 2)
         \o Run("HardDrop", 1) \o Run("MoveRight", 3) \o Run("HardDrop", 1)
         \o Run("Rotate", 1) \o Run("MoveRight", 4) \o Run("HardDrop", 1)
         \o Run("Rotate", 1) \o Run("MoveRight", 1) \o Run("HardDrop", 1)
         \o Run("Rotate", 1) \o Run("HardDrop", 1) \o Run("MoveLeft", 3)
         \o Run("HardDrop", 1) \o Run("Rotate", 2) \o Run("MoveLeft", 1)
         \o Run("HardDrop", 1) \o Run("Rotate", 1) \o Run("MoveRight", 3)
         \o Run("HardDrop", 1) \o Run("MoveLeft", 4) \o Run("HardDrop", 1)
         \o Run("Rotate", 1) \o Run("MoveRight", 1) \o Run("HardDrop", 1)
         \o Run("Rotate", 1) \o Run("MoveRight", 5) \o Run("MoveDown", 19)
         \o Run("Tick", 50) \o Run("MoveRight", 4) \o Run("HardDrop", 1)
         \o Run("Rotate", 2) \o Run("MoveRight", 3) \o Run("HardDrop", 2)
         \o Run("MoveRight", 3) \o Run("HardDrop", 1) \o Run("Rotate", 1)
         \o Run("MoveRight", 5) \o Run("HardDrop", 1) \o Run("MoveLeft", 3)
         \o Run("HardDrop", 1) \o Run("Tick", 93) \o Run("HardDrop", 1) ],
     \* 49 ticks pass before the first piece; the stack of the second opening
     \* is built; after the hard drops that arrive when the game is over the
     \* piece is moved right and the timer lowers it
     [ initialRNG |-> 10,
       script |->
            Run("Tick", 49) \o Run("HardDrop", 1) \o Run("Rotate", 1)
         \o Run("MoveLeft", 1) \o Run("HardDrop", 1) \o Run("Rotate", 1)
         \o Run("MoveLeft", 2) \o Run("HardDrop", 1) \o Run("Rotate", 1)
         \o Run("MoveLeft", 1) \o Run("HardDrop", 1) \o Run("MoveRight", 3)
         \o Run("HardDrop", 1) \o Run("Rotate", 1) \o Run("MoveLeft", 2)
         \o Run("HardDrop", 1) \o Run("Rotate", 1) \o Run("MoveLeft", 1)
         \o Run("HardDrop", 1) \o Run("Rotate", 1) \o Run("MoveLeft", 2)
         \o Run("HardDrop", 1) \o Run("MoveLeft", 4) \o Run("HardDrop", 1)
         \o Run("Rotate", 1) \o Run("MoveLeft", 2) \o Run("HardDrop", 1)
         \o Run("Rotate", 1) \o Run("MoveLeft", 1) \o Run("HardDrop", 2)
         \o Run("MoveRight", 1) \o Run("Tick", 1) ] >>

VARIABLES
  state,     \* the State held by scan
  pre,       \* the State the last action was applied to
  act,       \* the last action applied ("Init" before the first)
  opening,   \* the index of the opening followed
  pos,       \* how many actions of the opening have been played
  free       \* how many actions have been played off the opening

vars == << state, pre, act, opening, pos, free >>

Init ==
  /\ opening \in 1..Len(Openings)
  /\ state = initialState(Openings[opening].initialRNG)
  /\ pre = state
  /\ act = "Init"
  /\ pos = 0
  /\ free = 0

OnScript(a) ==
  /\ free = 0
  /\ pos < Len(Openings[opening].script)
  /\ Openings[opening].script[pos + 1] = a

\* Action a arrives: as the opening's next action, or off the opening.
Arrives(a) ==
  /\ IF OnScript(a)
     THEN pos' = pos + 1 /\ free' = free
     ELSE free < MaxFree /\ pos' = pos /\ free' = free + 1
  /\ pre' = state
  /\ act' = a
  /\ UNCHANGED opening

Tick == Arrives("Tick") /\ state' = TickApply(state)
MoveLeft == Arrives("MoveLeft") /\ state' = MoveLeftApply(state)
MoveRight == Arrives("MoveRight") /\ state' = MoveRightApply(state)
MoveDown == Arrives("MoveDown") /\ state' = MoveDownApply(state)
Rotate == Arrives("Rotate") /\ state' = RotateApply(state)
\* A hard drop whose new rng also depends on how many actions came before.
HardDrop_CountsArrivals ==
  /\ Arrives("HardDrop")
  /\ state' = [HardDropApply(state) EXCEPT !.rng = hash(state.rng + pos + free)]
HardDrop == Arrives("HardDrop") /\ state' = HardDropApply(state)
Reset == Arrives("Reset") /\ state' = ResetApply(state)

Next == \/ Tick \/ MoveLeft \/ MoveRight \/ MoveDown
        \/ Rotate \/ HardDrop \/ Reset

Spec == Init /\ [][Next]_vars

(***************************************************************************)
(* Line clearing on its own: clearLines folded over findLinesToClear, on   *)
(* grids whose lowest ClearRows rows (and row -1) are each drawn from a    *)
(* few patterns, stored top row first or bottom row first.                 *)
(***************************************************************************)
ClearRows == 5

\* Whether pattern p has a cube in column x.
InPattern(p, x) ==
  CASE p = 0 -> FALSE                      \* an empty row
    [] p = 1 -> TRUE                       \* a full row
    [] p = 2 -> x % 2 = 0                  \* every other column
    [] p = 3 -> x < GRID_WIDTH - 1         \* all but the last column

PatternRows == {-1} \cup ((GRID_HEIGHT - ClearRows)..(GRID_HEIGHT - 1))

RowCubes(y, p) ==
  LET cell(i) == [x |-> i - 1, y |-> y,
                  colour |-> Colours[((i - 1 + y + 1) % 7) + 1],
                  id |-> CoordId(i - 1, y)]
      here(c) == InPattern(p, c.x)
  IN SelectSeq([i \in 1..GRID_WIDTH |-> cell(i)], here)

RECURSIVE GridFrom(_, _, _)
\* The rows y..GRID_HEIGHT-1 of the pattern assignment f, top row first or
\* bottom row first.
GridFrom(f, y, topFirst) ==
  IF y >= GRID_HEIGHT THEN <<>>
  ELSE LET row == IF y \in PatternRows THEN RowCubes(y, f[y]) ELSE <<>>
       IN IF topFirst THEN row \o GridFrom(f, y + 1, topFirst)
          ELSE GridFrom(f, y + 1, topFirst) \o row

InitClear ==
  /\ \E f \in [PatternRows -> 0..3], topFirst \in BOOLEAN :
       /\ f[-1] \in {0, 2}
       /\ state = [initialState(0) EXCEPT !.mainGridCubes = GridFrom(f, -1, topFirst)]
  /\ pre = state
  /\ act = "Init"
  /\ opening = 1
  /\ pos = 0
  /\ free = 0

\* linesToClear.reduce(clearLines, cubes) for the full rows of cubes
ClearFullRows ==
  /\ act = "Init"
  /\ state' = [state EXCEPT !.mainGridCubes =
                 ReduceClearLines(findLinesToClear(convertTo2D(state.mainGridCubes)),
                                  state.mainGridCubes)]
  /\ pre' = state
  /\ act' = "Clear"
  /\ UNCHANGED << opening, pos, free >>

SpecClear == InitClear /\ [][ClearFullRows]_vars

(***************************************************************************)
(* Definitions the properties are stated with                              *)
(***************************************************************************)
\* Whether some cube of the array is at (x, y).
OccupiedAt(cubes, x, y) ==
  \E i \in 1..Len(cubes) : cubes[i].x = x /\ cubes[i].y = y

\* The rows of the grid in which every column holds a cube.
FullRowsOf(cubes) ==
  {y \in 0..(GRID_HEIGHT - 1) : \A x \in 0..(GRID_WIDTH - 1) : OccupiedAt(cubes, x, y)}

\* The cubes moved by (dx, dy), everything else kept.
Translated(cubes, dx, dy) ==
  [i \in 1..Len(cubes) |-> [cubes[i] EXCEPT !.x = @ + dx, !.y = @ + dy]]

\* Whether a piece lies within the side walls and above the floor and on no
\* settled cube.
Fits(cubes, settled) ==
  \A i \in 1..Len(cubes) :
    /\ cubes[i].x >= 0
    /\ cubes[i].x < GRID_WIDTH
    /\ cubes[i].y < GRID_HEIGHT
    /\ ~OccupiedAt(settled, cubes[i].x, cubes[i].y)

\* Whether the piece moved down d rows meets a settled cube or the floor.
Blocked(cubes, settled, d) ==
  \E i \in 1..Len(cubes) :
    \/ cubes[i].y + d >= GRID_HEIGHT
    \/ OccupiedAt(settled, cubes[i].x, cubes[i].y + d)

\* How far the piece gets moving down one row at a time, stopping before the
\* first row in which it would meet a settled cube or the floor.
FreeFall(cubes, settled) ==
  CHOOSE d \in 0..(2 * GRID_HEIGHT) :
    /\ \A e \in 1..d : ~Blocked(cubes, settled, e)
    /\ Blocked(cubes, settled, d + 1)

\* The coordinates and colours of an array of cubes, in array order.
Shape(cubes) == [i \in 1..Len(cubes) |-> << cubes[i].x, cubes[i].y, cubes[i].colour >>]

PlayerKeys == {"MoveLeft", "MoveRight", "MoveDown", "Rotate", "HardDrop"}

(***************************************************************************)
(* Properties                                                              *)
(***************************************************************************)

\* C1: in a game-over state Tick, MoveLeft, MoveRight, MoveDown, Rotate and
\* HardDrop leave the tick counters, the active piece, the settled grid, the
\* preview piece, rng, score, level, linesCleared, highScore and gameEnd as
\* they were.
C1_GameOverIgnoresActions ==
  (pre.gameEnd /\ act \in PlayerKeys \cup {"Tick"}) =>
    /\ state.gameTick = pre.gameTick
    /\ state.currentTick = pre.currentTick
    /\ state.dropTick = pre.dropTick
    /\ state.currentCubes = pre.currentCubes
    /\ state.mainGridCubes = pre.mainGridCubes
    /\ state.previewGridCubes = pre.previewGridCubes
    /\ state.rng = pre.rng
    /\ state.score = pre.score
    /\ state.level = pre.level
    /\ state.linesCleared = pre.linesCleared
    /\ state.highScore = pre.highScore
    /\ state.gameEnd = pre.gameEnd

\* A hard drop of an active piece while the game is not over.
HardDropOfPiece ==
  act = "HardDrop" /\ ~pre.gameEnd /\ Len(pre.currentCubes) > 0

\* C2: a HardDrop in a non-game-over state settles the piece where moving it
\* down one row at a time stops: the settled grid is the landing of the piece
\* moved down by its free fall, so a merged cube rests on the floor or on a
\* cube settled before.
C2_HardDropFallsToSupport ==
  HardDropOfPiece =>
    state.mainGridCubes =
      Landing(pre, pre.mainGridCubes \o
                   generateNewCubes(pre.currentCubes, 0,
                                    FreeFall(pre.currentCubes, pre.mainGridCubes),
                                    TRUE)).finalMainGridCubes

\* A GameTick (a Tick that rolls over) whose piece cannot move down a row.
TickLanding ==
  /\ act = "Tick"
  /\ ~pre.gameEnd
  /\ state.gameTick = pre.gameTick + 1
  /\ Len(pre.currentCubes) > 0
  /\ Blocked(pre.currentCubes, pre.mainGridCubes, 1)

\* The settled grid with the landing piece merged in, before any row is
\* cleared.
MergedGrid ==
  IF act = "HardDrop"
  THEN pre.mainGridCubes \o Translated(pre.currentCubes, 0, HardDropDistance(pre))
  ELSE pre.mainGridCubes \o pre.currentCubes

\* How many cubes of the array are in row y.
CountInRow(cubes, y) == Cardinality({ i \in 1..Len(cubes) : cubes[i].y = y })

\* What a landing that fills k rows does to score, linesCleared and the grid.
ClearsFullRows ==
  LET k == Cardinality(FullRowsOf(MergedGrid))
  IN /\ k \in 0..4
     /\ state.score = pre.score + 100 * k
     /\ state.linesCleared = pre.linesCleared + k
     /\ Len(state.mainGridCubes) = Len(pre.mainGridCubes) + 4 - 10 * k
     /\ \A y \in 0..(GRID_HEIGHT - 1) :
          CountInRow(state.mainGridCubes, y) < GRID_WIDTH

\* C3: a landing in a non-game-over state, that is a GameTick that merges the
\* piece or a HardDrop of an active piece, that makes k rows full clears
\* exactly those rows: score grows by 100*k, linesCleared by k, the settled
\* cubes become 4 - 10*k more and no row of the grid is left full.
C3_LandingClearsFullRows ==
  (TickLanding \/ HardDropOfPiece) => ClearsFullRows

\* C3 as stated, for every HardDrop in a non-game-over state, the one with no
\* active piece included.
C3_EveryHardDropLands ==
  (TickLanding \/ (act = "HardDrop" /\ ~pre.gameEnd)) => ClearsFullRows

\* The timer landed a piece that filled four rows at once.
C3_Witness ==
  /\ TickLanding
  /\ Cardinality(FullRowsOf(MergedGrid)) = 4
  /\ state.score = pre.score + 400

\* The cubes of the array outside the full rows, each moved down by the
\* number of full rows below it.
Collapsed(cubes) ==
  LET full == FullRowsOf(cubes)
      survives(cube) == cube.y \notin full
      survivors == SelectSeq(cubes, survives)
  IN [i \in 1..Len(survivors) |->
        << survivors[i].x,
           survivors[i].y + Cardinality({ r \in full : r > survivors[i].y }),
           survivors[i].colour >>]

\* C4: clearLines applied once per full row, in ascending row order, removes
\* the cubes of the full rows and moves every other cube down by the number
\* of full rows below it, keeping its x and colour and the vertical order of
\* the cubes of a column.
C4_ClearLinesCollapses ==
  act = "Clear" =>
    LET survives(cube) == cube.y \notin FullRowsOf(pre.mainGridCubes)
        survivors == SelectSeq(pre.mainGridCubes, survives)
        after == state.mainGridCubes
    IN /\ Shape(after) = Collapsed(pre.mainGridCubes)
       /\ \A i, j \in 1..Len(after) :
            (survivors[i].x = survivors[j].x /\ survivors[i].y < survivors[j].y)
              => after[i].y < after[j].y

\* Two full rows with a partly filled row between them were cleared at once.
C4_Witness ==
  /\ act = "Clear"
  /\ \E a, b \in FullRowsOf(pre.mainGridCubes) :
       /\ b > a + 1
       /\ \A y \in (a + 1)..(b - 1) :
            /\ y \notin FullRowsOf(pre.mainGridCubes)
            /\ CountInRow(pre.mainGridCubes, y) > 0
  /\ \E i \in 1..Len(pre.mainGridCubes) : pre.mainGridCubes[i].y = -1
  /\ Len(state.mainGridCubes) > 0

\* C5: no two cubes of the settled grid are at the same (x, y).
C5_NoTwoSettledCubesCoincide ==
  \A i, j \in 1..Len(state.mainGridCubes) :
    (state.mainGridCubes[i].x = state.mainGridCubes[j].x
       /\ state.mainGridCubes[i].y = state.mainGridCubes[j].y) => i = j

\* C6: every settled cube is within the side walls, and gameEnd holds exactly
\* when some settled cube is above row 0.
C6_GameEndIffCubeAboveGrid ==
  /\ \A i \in 1..Len(state.mainGridCubes) :
       state.mainGridCubes[i].x >= 0 /\ state.mainGridCubes[i].x < GRID_WIDTH
  /\ state.gameEnd <=>
       \E i \in 1..Len(state.mainGridCubes) : state.mainGridCubes[i].y < 0

\* C7: level is floor(score / 1000) + 1: it is 1 while score is below 1000 and
\* becomes 2 in the step in which score reaches 1000.
C7_LevelFollowsScore ==
  /\ state.level = (state.score \div 1000) + 1
  /\ state.score < 1000 => state.level = 1
  /\ (pre.score < 1000 /\ state.score >= 1000) =>
       (pre.level = 1 /\ state.level = 2)

\* The step in which the score reached 1000 and the level became 2.
C7_Witness ==
  /\ pre.score = 900 /\ pre.level = 1
  /\ state.score = 1000 /\ state.level = 2

\* C8: Reset of a game-over state zeroes gameTick, currentTick, score and
\* linesCleared, sets level 1, empties the active piece and the settled grid
\* and clears gameEnd, keeping highScore, previewGridCubes and rng; Reset of
\* any other state changes nothing.
C8_Reset ==
  act = "Reset" =>
    IF pre.gameEnd
    THEN /\ state.gameTick = 0
         /\ state.currentTick = 0
         /\ state.score = 0
         /\ state.linesCleared = 0
         /\ state.level = 1
         /\ state.currentCubes = <<>>
         /\ state.mainGridCubes = <<>>
         /\ state.gameEnd = FALSE
         /\ state.highScore = pre.highScore
         /\ state.previewGridCubes = pre.previewGridCubes
         /\ state.rng = pre.rng
    ELSE state = pre

\* Reset of a game that ended with points scored and a high score set.
C8_Witness ==
  /\ act = "Reset"
  /\ pre.gameEnd
  /\ pre.score > 0
  /\ pre.highScore > 0
  /\ Len(pre.mainGridCubes) > 0
  /\ ~state.gameEnd

\* The translation a move asks for.
MoveDelta ==
  CASE act = "MoveLeft" -> << -1, 0 >>
    [] act = "MoveRight" -> << 1, 0 >>
    [] act = "MoveDown" -> << 0, 1 >>

\* C9: MoveLeft, MoveRight and MoveDown translate the active piece by (-1,0),
\* (+1,0), (0,+1) exactly when the translated piece is within the walls and
\* above the floor, overlaps no settled cube and the game is not over;
\* otherwise the piece stays as it was; nothing but currentCubes and
\* updateGrid changes.
C9_MoveIffValid ==
  act \in {"MoveLeft", "MoveRight", "MoveDown"} =>
    LET moved == Translated(pre.currentCubes, MoveDelta[1], MoveDelta[2])
    IN /\ state.currentCubes =
            IF Fits(moved, pre.mainGridCubes) /\ ~pre.gameEnd
            THEN moved ELSE pre.currentCubes
       /\ state = [pre EXCEPT !.currentCubes = state.currentCubes,
                              !.updateGrid = state.updateGrid]

\* A sideways move was refused because a settled cube is in the way.
C9_Witness ==
  /\ act \in {"MoveLeft", "MoveRight"}
  /\ ~pre.gameEnd
  /\ Len(pre.currentCubes) > 0
  /\ state.currentCubes = pre.currentCubes
  /\ \E i \in 1..Len(pre.currentCubes) :
       OccupiedAt(pre.mainGridCubes, pre.currentCubes[i].x + MoveDelta[1],
                  pre.currentCubes[i].y)

\* The piece turned by 90 degrees about its first cube.
Turned(cubes) ==
  [i \in 1..Len(cubes) |->
     [cubes[i] EXCEPT !.x = cubes[1].x - (cubes[i].y - cubes[1].y),
                      !.y = cubes[1].y + (cubes[i].x - cubes[1].x)]]

\* Whether the cubes shifted by k columns are all within the side walls.
WithinWalls(cubes, k) ==
  \A i \in 1..Len(cubes) : cubes[i].x + k >= 0 /\ cubes[i].x + k < GRID_WIDTH

\* The smallest horizontal shift that brings the cubes within the side walls.
SmallestShift(cubes) ==
  CHOOSE k \in (-GRID_WIDTH)..GRID_WIDTH :
    /\ WithinWalls(cubes, k)
    /\ \A j \in (-GRID_WIDTH)..GRID_WIDTH :
         WithinWalls(cubes, j) =>
           (IF k < 0 THEN -k ELSE k) <= (IF j < 0 THEN -j ELSE j)

\* A Rotate of an active piece that is not the yellow square, game not over.
RotateOfPiece ==
  /\ act = "Rotate"
  /\ ~pre.gameEnd
  /\ Len(pre.currentCubes) > 0
  /\ pre.currentCubes[1].colour # "yellow"

\* C10: Rotate of a non-yellow active piece in a non-game-over state gives
\* the piece turned by 90 degrees about its first cube and shifted sideways by
\* the least amount that brings it within the side walls, if that placement
\* overlaps no settled cube and is above the floor; otherwise the piece as it
\* was.  The piece is never left outside the walls, and nothing but
\* currentCubes and updateGrid changes.
C10_RotateKicksOrStays ==
  RotateOfPiece =>
    LET turned == Turned(pre.currentCubes)
        placed == Translated(turned, SmallestShift(turned), 0)
    IN /\ state.currentCubes =
            IF Fits(placed, pre.mainGridCubes) THEN placed ELSE pre.currentCubes
       /\ WithinWalls(state.currentCubes, 0)
       /\ state = [pre EXCEPT !.currentCubes = state.currentCubes,
                              !.updateGrid = state.updateGrid]

\* A piece touching a side wall was rotated and pushed back inside.
C10_Witness ==
  /\ RotateOfPiece
  /\ ~WithinWalls(Turned(pre.currentCubes), 0)
  /\ state.currentCubes # pre.currentCubes

(***************************************************************************)
(* Rotations in a row: a piece is spawned and placed by hard drops and     *)
(* moves, then Rotate arrives up to four times with nothing                *)
(* in between.  Here pre is the State before the first of these rotations, *)
(* pos counts them, and act is "Turn" as long as none of them was shifted  *)
(* by the wall kick or refused.                                            *)
(***************************************************************************)
MaxSetUp == 5

SetUpActions == {"HardDrop", "MoveLeft", "MoveRight", "MoveDown"}

\* initialRNG 0..6 makes each of the seven tetrominoes the first piece.
InitRotate ==
  /\ opening \in 1..7
  /\ state = initialState(opening - 1)
  /\ pre = state
  /\ act = "Init"
  /\ pos = 0
  /\ free = 0

\* A hard drop or sideways move, of which there are MaxSetUp at most, or a
\* move down, which the floor and the settled cubes bound.
SetUp ==
  /\ pos = 0
  /\ \E a \in SetUpActions :
       /\ state' = reduceState(state, a)
       /\ act' = a
       /\ IF a = "MoveDown"
          THEN state' # state /\ free' = free
          ELSE free < MaxSetUp /\ free' = free + 1
  /\ pre' = state
  /\ UNCHANGED << opening, pos >>

\* Whether Rotate.apply on s shifts the turned piece or refuses to turn it.
RotateDisturbed(s) ==
  LET newCubes == RotatedCubes(s)
      relativeX == WallKick(newCubes)
      adjustedCubes == generateNewCubes(newCubes, relativeX, 0, FALSE)
  IN relativeX # 0 \/ isCollide([s EXCEPT !.currentCubes = adjustedCubes])

RotateAgain ==
  /\ pos < 4
  /\ Len(state.currentCubes) > 0
  /\ state.currentCubes[1].colour # "yellow"
  /\ state' = RotateApply(state)
  /\ pre' = IF pos = 0 THEN state ELSE pre
  /\ act' = IF (pos = 0 \/ act = "Turn") /\ ~RotateDisturbed(state)
            THEN "Turn" ELSE "Disturbed"
  /\ pos' = pos + 1
  /\ UNCHANGED << opening, free >>

NextRotate == SetUp \/ RotateAgain

SpecRotate == InitRotate /\ [][NextRotate]_vars

\* C11: four Rotate actions in a row on a non-yellow piece, none of them
\* shifted by the wall kick or refused, leave the active piece with the same
\* cubes in the same order at the same coordinates as before the first.
C11_FourRotationsRestore ==
  (pos = 4 /\ act = "Turn") => state.currentCubes = pre.currentCubes

\* Four undisturbed rotations of a piece next to settled cubes were made,
\* and the piece was not as it began after the first two of them.
C11_Witness ==
  /\ pos = 4
  /\ act = "Turn"
  /\ Len(pre.mainGridCubes) > 0
  /\ RotatedCubes(RotateApply(pre)) # pre.currentCubes
  /\ state.currentCubes = pre.currentCubes

\* A Rotate that finds no active piece or the yellow square.
RotateExempt ==
  /\ act = "Rotate"
  /\ (Len(pre.currentCubes) = 0 \/ pre.currentCubes[1].colour = "yellow")

\* C12: Rotate applied when the active piece is the yellow square, wherever
\* it is, or when there is no active piece returns the state it was applied
\* to, equal in every field.
C12_RotateExemptIsIdentity ==
  RotateExempt => state = pre

\* The yellow square, moved away from where it spawned in a game that is not
\* over, was rotated.
C12_Witness ==
  /\ RotateExempt
  /\ ~pre.gameEnd
  /\ Len(pre.currentCubes) > 0
  /\ pre.currentCubes[1].x # MAIN_GRID_X
  /\ pre.currentCubes[1].y # MAIN_GRID_Y

C14_GameEndStaysUntilReset ==
  /\ (pre.gameEnd /\ ~state.gameEnd) => act = "Reset"
  /\ (pre.gameEnd /\ state.gameEnd /\ act # "Init") =>
       /\ state.score = pre.score
       /\ state.level = pre.level
       /\ state.linesCleared = pre.linesCleared

\* A Tick that rolls over, and so applies a GameTick.
Rollover == act = "Tick" /\ pre.currentTick + 1 = pre.dropTick

\* The tetromino of the colour of the preview piece of s at the spawn anchor.
SpawnedPiece(s) ==
  generateTetromino(findIndexByColour(s.previewGridCubes[1].colour),
                    MAIN_GRID_X, MAIN_GRID_Y, "c")

\* C15: a GameTick in a non-game-over state with an active piece either moves
\* the piece down one row, leaving the settled grid, the preview piece and rng
\* as they were, when the piece one row down overlaps no settled cube and is
\* above the floor; or else adds the piece where it is to the settled grid,
\* clears the full rows and spawns a new piece.  With no active piece it
\* spawns a piece and adds nothing to the settled grid.
C15_GameTickMovesOrLands ==
  (Rollover /\ ~pre.gameEnd) =>
    IF Len(pre.currentCubes) = 0
    THEN /\ state.mainGridCubes = pre.mainGridCubes
         /\ state.currentCubes = SpawnedPiece(pre)
    ELSE IF ~Blocked(pre.currentCubes, pre.mainGridCubes, 1)
    THEN /\ state.currentCubes = Translated(pre.currentCubes, 0, 1)
         /\ state.mainGridCubes = pre.mainGridCubes
         /\ state.previewGridCubes = pre.previewGridCubes
         /\ state.rng = pre.rng
    ELSE /\ Shape(state.mainGridCubes) =
              Collapsed(pre.mainGridCubes \o pre.currentCubes)
         /\ state.currentCubes = SpawnedPiece(pre)

\* The timer found the piece resting on a settled cube and merged it without
\* a row becoming full.
C15_Witness ==
  /\ Rollover
  /\ ~pre.gameEnd
  /\ Len(pre.currentCubes) > 0
  /\ \E i \in 1..Len(pre.currentCubes) :
       OccupiedAt(pre.mainGridCubes, pre.currentCubes[i].x, pre.currentCubes[i].y + 1)
  /\ Len(state.mainGridCubes) = Len(pre.mainGridCubes) + 4
  /\ state.currentCubes = SpawnedPiece(pre)

\* C16: a Tick on a non-game-over state with currentTick + 1 = dropTick sets
\* currentTick to 0 and dropTick to the drop ticks of the level it found, and
\* applies one GameTick (gameTick grows by 1); any other Tick adds 1 to
\* currentTick, clears updateGrid and changes nothing else.  Player actions
\* leave the three tick counters alone and currentTick stays below a positive
\* dropTick, so dropTick Ticks pass from one automatic drop to the next.
C16_TickCountsToDrop ==
  /\ (act = "Tick" /\ ~pre.gameEnd) =>
       IF pre.currentTick + 1 = pre.dropTick
       THEN /\ state.currentTick = 0
            /\ state.dropTick = calculateDropTick(pre.level)
            /\ state.gameTick = pre.gameTick + 1
       ELSE state = [pre EXCEPT !.currentTick = pre.currentTick + 1,
                                !.updateGrid = FALSE]
  /\ (act \in PlayerKeys /\ ~pre.gameEnd) =>
       /\ state.currentTick = pre.currentTick
       /\ state.dropTick = pre.dropTick
       /\ state.gameTick = pre.gameTick
  /\ (~state.gameEnd /\ state.dropTick > 0) =>
       (state.currentTick >= 0 /\ state.currentTick < state.dropTick)

\* The rollover at level 2: after 49 Ticks counted against a dropTick of 50,
\* the next Tick drops the piece and sets dropTick to 43.
C16_Witness ==
  /\ act = "Tick"
  /\ ~pre.gameEnd
  /\ pre.level = 2
  /\ pre.currentTick = 49 /\ pre.dropTick = 50
  /\ state.currentTick = 0 /\ state.dropTick = 43
  /\ state.gameTick = pre.gameTick + 1

\* A step that spawns a piece: a HardDrop, or a GameTick in a non-game-over
\* state that finds no active piece or lands the one it finds.
SpawnStep ==
  \/ act = "HardDrop"
  \/ /\ Rollover
     /\ ~pre.gameEnd
     /\ (Len(pre.currentCubes) = 0 \/ Blocked(pre.currentCubes, pre.mainGridCubes, 1))

\* C17: in a step that spawns a piece the new active piece is the tetromino
\* of the colour the preview piece had, at the spawn anchor (4,-2), the new
\* preview piece is the tetromino number (prior rng mod 7) and rng becomes
\* hash(prior rng); every other step leaves rng and previewGridCubes as they
\* were.
C17_RngAdvancesOnSpawnOnly ==
  act # "Init" =>
    IF SpawnStep
    THEN /\ state.currentCubes = SpawnedPiece(pre)
         /\ \A i \in 1..Len(state.currentCubes) :
              state.currentCubes[i].colour = pre.previewGridCubes[1].colour
         /\ state.previewGridCubes =
              generateTetromino(pre.rng % 7, PREVIEW_GRID_X, PREVIEW_GRID_Y, "p")
         /\ \A i \in 1..Len(state.previewGridCubes) :
              state.previewGridCubes[i].colour = Colours[(pre.rng % 7) + 1]
         /\ state.rng = hash(pre.rng)
    ELSE /\ state.rng = pre.rng
         /\ state.previewGridCubes = pre.previewGridCubes

\* The timer found no active piece and spawned the one the preview showed;
\* the preview then showed a piece of another colour.
C17_Witness ==
  /\ Rollover
  /\ Len(pre.currentCubes) = 0
  /\ Len(state.currentCubes) = 4
  /\ state.currentCubes[1].colour = pre.previewGridCubes[1].colour
  /\ state.previewGridCubes[1].colour # pre.previewGridCubes[1].colour
  /\ state.rng = hash(pre.rng)

\* C18: after every action updateGrid is true exactly when the step landed
\* or spawned a piece (a HardDrop, or a GameTick that merged the piece or
\* found none); after MoveLeft, MoveRight, MoveDown, any Rotate, any Reset, a
\* Tick that does not roll over and a GameTick that only moves the piece it
\* is false.
C18_UpdateGridIffSpawn ==
  act # "Init" => (state.updateGrid <=> SpawnStep)

\* C19: gameEnd turns from false to true only in a step that merges the
\* active piece into the settled grid (a GameTick that lands it, or a
\* HardDrop) and leaves a settled cube above row 0.
C19_GameEndOnlyByLanding ==
  (~pre.gameEnd /\ state.gameEnd) =>
    /\ \/ act = "HardDrop" /\ Len(pre.currentCubes) > 0
       \/ /\ Rollover
          /\ Len(pre.currentCubes) > 0
          /\ Blocked(pre.currentCubes, pre.mainGridCubes, 1)
    /\ \E i \in 1..Len(state.mainGridCubes) : state.mainGridCubes[i].y < 0

\* C20: after every action previousMainGridCubes is the mainGridCubes of the
\* state the action was applied to; so it is in every state whose updateGrid
\* is true.
C20_PreviousGridIsPriorGrid ==
  act # "Init" => state.previousMainGridCubes = pre.mainGridCubes

-----------------------------------------------------------------------------
\* A long game.  One player plays the game that starts from MarathonRNG up to
\* level 30: for every piece a Tick arrives, then the player turns the piece,
\* shifts it and drops it.  MarathonPlan lists, piece by piece, the number of
\* turns and the shift (negative to the left).  After the last piece only
\* Ticks arrive.

MaxStall == 60

MarathonRNG == 38

MarathonPlan ==
  <<
     <<0,0>>, <<0,-3>>, <<2,-3>>, <<1,-1>>, <<0,-2>>, <<1,-3>>, <<0,1>>,
     <<1,0>>, <<0,-1>>, <<0,4>>, <<2,-3>>, <<1,1>>, <<0,-3>>, <<2,-2>>,
     <<0,-3>>, <<1,2>>, <<2,4>>, <<0,4>>, <<0,-3>>, <<3,0>>, <<1,1>>, <<1,-1>>,
     <<0,3>>, <<3,5>>, <<1,2>>, <<0,3>>, <<3,0>>, <<2,3>>, <<1,2>>, <<0,4>>,
     <<3,-3>>, <<1,3>>, <<1,5>>, <<2,4>>, <<0,-2>>, <<1,1>>, <<1,-4>>, <<2,2>>,
     <<1,4>>, <<0,2>>, <<1,5>>, <<0,-1>>, <<1,-4>>, <<2,3>>, <<0,3>>, <<3,1>>,
     <<1,-2>>, <<2,-1>>, <<0,4>>, <<1,-4>>, <<0,2>>, <<0,-1>>, <<2,-1>>,
     <<0,3>>, <<2,-2>>, <<1,1>>, <<0,3>>, <<1,0>>, <<2,-3>>, <<2,0>>, <<0,-3>>,
     <<0,-3>>, <<0,3>>, <<0,-1>>, <<0,2>>, <<0,4>>, <<0,-3>>, <<0,0>>, <<0,3>>,
     <<1,5>>, <<1,4>>, <<2,-2>>, <<0,2>>, <<1,-4>>, <<1,0>>, <<2,2>>, <<0,1>>,
     <<0,3>>, <<1,2>>, <<0,-2>>, <<0,-3>>, <<0,-1>>, <<0,3>>, <<1,-2>>,
     <<1,2>>, <<0,-1>>, <<0,-4>>, <<1,5>>, <<1,3>>, <<0,-1>>, <<0,0>>,
     <<1,-3>>, <<3,4>>, <<0,1>>, <<0,-3>>, <<1,0>>, <<1,-4>>, <<2,4>>, <<0,4>>,
     <<0,4>>, <<1,2>>, <<2,-2>>, <<0,-1>>, <<2,1>>, <<1,-4>>, <<2,2>>, <<1,0>>,
     <<1,-3>>, <<1,5>>, <<2,3>>, <<2,1>>, <<1,-4>>, <<1,-2>>, <<0,4>>, <<2,0>>,
     <<0,0>>, <<1,2>>, <<1,1>>, <<1,3>>, <<1,-4>>, <<1,0>>, <<1,-2>>, <<3,-3>>,
     <<1,4>>, <<0,-3>>, <<1,5>>, <<1,-1>>, <<2,4>>, <<1,0>>, <<1,-4>>, <<0,1>>,
     <<1,-2>>, <<1,-4>>, <<0,4>>, <<0,-2>>, <<0,2>>, <<2,3>>, <<0,-1>>,
     <<2,4>>, <<1,-3>>, <<3,1>>, <<2,3>>, <<2,4>>, <<0,0>>, <<1,-4>>, <<1,-2>>,
     <<1,3>>, <<2,0>>, <<0,4>>, <<0,-1>>, <<1,2>>, <<0,-3>>, <<1,1>>, <<2,4>>,
     <<0,4>>, <<2,3>>, <<0,-1>>, <<1,-4>>, <<2,-2>>, <<1,5>>, <<1,1>>, <<1,1>>,
     <<3,3>>, <<1,1>>, <<1,2>>, <<1,5>>, <<1,5>>, <<0,2>>, <<1,5>>, <<1,1>>,
     <<0,-2>>, <<0,-3>>, <<0,-2>>, <<1,-4>>, <<1,5>>, <<1,1>>, <<1,-1>>,
     <<3,5>>, <<1,-3>>, <<1,-4>>, <<1,4>>, <<0,0>>, <<1,-2>>, <<1,2>>,
     <<2,-3>>, <<3,3>>, <<1,-1>>, <<1,3>>, <<1,3>>, <<1,5>>, <<1,3>>, <<0,0>>,
     <<1,1>>, <<0,-3>>, <<0,-3>>, <<3,0>>, <<1,-4>>, <<0,-1>>, <<0,3>>,
     <<0,-3>>, <<3,5>>, <<0,0>>, <<3,-2>>, <<0,4>>, <<0,0>>, <<1,3>>, <<2,1>>,
     <<1,-4>>, <<0,4>>, <<0,-2>>, <<0,-1>>, <<0,2>>, <<0,0>>, <<1,-4>>,
     <<0,0>>, <<2,0>>, <<1,2>>, <<1,-2>>, <<3,5>>, <<1,4>>, <<3,-3>>, <<3,5>>,
     <<1,-4>>, <<1,-4>>, <<2,4>>, <<3,-3>>, <<3,2>>, <<0,-1>>, <<0,0>>,
     <<1,5>>, <<0,1>>, <<1,3>>, <<0,0>>, <<3,-2>>, <<1,-1>>, <<1,4>>, <<1,0>>,
     <<1,2>>, <<1,-4>>, <<0,3>>, <<1,5>>, <<3,1>>, <<1,3>>, <<3,-1>>, <<1,5>>,
     <<1,-3>>, <<1,-4>>, <<1,-2>>, <<1,-4>>, <<0,0>>, <<0,4>>, <<0,4>>,
     <<0,4>>, <<1,2>>, <<1,1>>, <<1,0>>, <<1,-3>>, <<1,-1>>, <<1,3>>, <<1,-4>>,
     <<0,1>>, <<2,4>>, <<0,4>>, <<0,-2>>, <<2,-2>>, <<1,0>>, <<1,2>>, <<0,-2>>,
     <<0,0>>, <<1,1>>, <<1,0>>, <<0,-4>>, <<0,-2>>, <<1,-1>>, <<0,-3>>,
     <<2,4>>, <<2,4>>, <<1,-2>>, <<0,4>>, <<3,5>>, <<1,0>>, <<1,-3>>, <<1,2>>,
     <<1,-4>>, <<2,3>>, <<1,-3>>, <<1,-2>>, <<1,0>>, <<1,-4>>, <<1,1>>,
     <<1,1>>, <<0,3>>, <<0,3>>, <<1,0>>, <<0,3>>, <<1,4>>, <<1,5>>, <<1,3>>,
     <<3,2>>, <<2,-3>>, <<0,3>>, <<0,3>>, <<0,-1>>, <<0,-4>>, <<1,1>>,
     <<0,-3>>, <<1,-2>>, <<3,-3>>, <<1,0>>, <<1,0>>, <<0,1>>, <<0,-2>>,
     <<0,4>>, <<0,4>>, <<0,2>>, <<0,-1>>, <<0,1>>, <<0,4>>, <<1,-4>>, <<3,5>>,
     <<1,-4>>, <<0,2>>, <<0,0>>, <<0,3>>, <<3,-2>>, <<1,-4>>, <<1,4>>, <<1,0>>,
     <<3,5>>, <<1,0>>, <<1,1>>, <<1,2>>, <<1,-3>>, <<1,-2>>, <<1,0>>, <<1,-2>>,
     <<1,-1>>, <<0,4>>, <<1,0>>, <<0,4>>, <<2,4>>, <<0,1>>, <<1,0>>, <<1,-4>>,
     <<0,1>>, <<1,-2>>, <<1,-3>>, <<0,4>>, <<1,0>>, <<0,1>>, <<1,5>>, <<1,5>>,
     <<3,1>>, <<1,3>>, <<1,-4>>, <<1,3>>, <<0,0>>, <<3,-3>>, <<1,-4>>,
     <<1,-1>>, <<2,0>>, <<0,0>>, <<3,-2>>, <<1,5>>, <<1,2>>, <<3,5>>, <<1,2>>,
     <<1,3>>, <<1,-3>>, <<1,-4>>, <<1,-1>>, <<1,5>>, <<2,0>>, <<1,4>>,
     <<1,-2>>, <<1,4>>, <<1,-2>>, <<1,-2>>, <<0,0>>, <<1,-1>>, <<1,2>>,
     <<0,1>>, <<1,5>>, <<0,0>>, <<0,3>>, <<1,-4>>, <<0,-4>>, <<0,-1>>, <<0,3>>,
     <<1,3>>, <<0,-3>>, <<3,5>>, <<1,1>>, <<0,-1>>, <<1,-3>>, <<0,0>>, <<0,0>>,
     <<1,2>>, <<1,4>>, <<3,-3>>, <<1,-3>>, <<1,-2>>, <<1,-3>>, <<0,0>>,
     <<3,1>>, <<1,5>>, <<3,-1>>, <<3,3>>, <<1,4>>, <<1,2>>, <<1,0>>, <<1,5>>,
     <<1,-1>>, <<1,4>>, <<1,-2>>, <<1,3>>, <<1,2>>, <<1,2>>, <<1,-4>>,
     <<0,-3>>, <<1,0>>, <<1,-3>>, <<1,-1>>, <<3,5>>, <<1,5>>, <<3,-1>>,
     <<1,3>>, <<1,5>>, <<1,2>>, <<0,0>>, <<1,-4>>, <<1,-2>>, <<2,4>>, <<1,-1>>,
     <<2,3>>, <<1,5>>, <<0,0>>, <<3,-3>>, <<1,-4>>, <<1,3>>, <<0,1>>, <<2,0>>,
     <<0,0>>, <<1,5>>, <<1,-2>>, <<0,-1>>, <<0,1>>, <<3,-3>>, <<1,3>>,
     <<0,-1>>, <<1,-3>>, <<0,4>>, <<0,0>>, <<1,3>>, <<1,-4>>, <<1,5>>, <<2,4>>,
     <<1,-1>>, <<0,-3>>, <<1,0>>, <<2,-3>>, <<2,-2>>, <<0,2>>, <<3,5>>,
     <<0,-2>>, <<0,-2>>, <<1,0>>, <<1,-3>>, <<2,2>>, <<3,4>>, <<2,4>>, <<3,2>>,
     <<1,1>>, <<1,0>>, <<1,-4>>, <<0,1>>, <<1,2>>, <<2,4>>, <<1,3>>, <<3,-3>>,
     <<1,3>>, <<3,-2>>, <<1,4>>, <<0,-1>>, <<0,0>>, <<0,-3>>, <<1,5>>,
     <<1,-4>>, <<1,4>>, <<3,-1>>, <<1,2>>, <<0,0>>, <<1,3>>, <<1,-1>>, <<0,0>>,
     <<1,4>>, <<1,-4>>, <<0,2>>, <<0,1>>, <<1,3>>, <<1,-3>>, <<3,5>>, <<3,-2>>,
     <<1,4>>, <<0,-3>>, <<0,-3>>, <<1,-3>>, <<1,-4>>, <<3,-2>>, <<1,0>>,
     <<1,0>>, <<3,5>>, <<1,1>>, <<2,0>>, <<0,4>>, <<0,0>>, <<1,0>>, <<3,1>>,
     <<0,-2>>, <<1,-4>>, <<0,4>>, <<3,3>>, <<1,4>>, <<1,2>>, <<1,-4>>, <<0,0>>,
     <<1,5>>, <<1,-2>>, <<0,3>>, <<2,4>>, <<1,-4>>, <<1,2>>, <<3,1>>, <<1,-3>>,
     <<3,-1>>, <<0,3>>, <<1,5>>, <<1,1>>, <<0,-2>>, <<0,2>>, <<3,4>>, <<1,-4>>,
     <<0,2>>, <<0,0>>, <<0,-4>>, <<2,3>>, <<0,0>>, <<0,3>>, <<1,-1>>, <<1,-1>>,
     <<0,1>>, <<0,-3>>, <<3,5>>, <<0,1>>, <<0,-1>>, <<1,3>>, <<1,-4>>, <<1,5>>,
     <<0,-3>>, <<3,5>>, <<2,-3>>, <<0,-1>>, <<0,2>>, <<2,0>>, <<2,4>>,
     <<0,-3>>, <<0,-1>>, <<2,2>>, <<1,-4>>, <<0,4>>, <<0,-2>>, <<0,2>>,
     <<0,4>>, <<1,-3>>, <<0,1>>, <<0,-2>>, <<0,4>>, <<1,1>>, <<0,3>>, <<0,-1>>,
     <<1,-4>>, <<1,5>>, <<2,3>>, <<0,-3>>, <<0,0>>, <<0,-1>>, <<0,-2>>,
     <<1,-4>>, <<0,2>>, <<0,3>>, <<0,4>>, <<0,1>>, <<2,-2>>, <<0,1>>, <<0,-1>>,
     <<1,3>>, <<3,5>>, <<0,-3>>, <<2,-1>>, <<0,2>>, <<0,-3>>, <<1,-4>>,
     <<1,1>>, <<2,4>>, <<1,-1>>, <<1,2>>, <<1,1>>, <<1,2>>, <<3,0>>, <<1,-3>>,
     <<1,-2>>, <<0,-1>>, <<0,-4>>, <<0,4>>, <<2,4>>, <<1,-1>>, <<1,-1>>,
     <<0,-4>>, <<0,3>>, <<2,4>>, <<0,4>>, <<0,-4>>, <<0,1>>, <<1,4>>, <<0,1>>,
     <<3,5>>, <<1,0>>, <<0,-3>>, <<1,2>>, <<0,3>>, <<1,-4>>, <<1,-1>>, <<1,2>>,
     <<0,3>>, <<0,-3>>, <<0,-1>>, <<1,1>>, <<0,-1>>, <<0,3>>, <<0,2>>,
     <<1,-2>>, <<2,-1>>, <<2,0>>, <<3,5>>, <<1,-4>>, <<0,2>>, <<2,1>>, <<1,5>>,
     <<1,4>>, <<1,-3>>, <<1,-4>>, <<0,3>>, <<0,1>>, <<1,-2>>, <<3,-1>>,
     <<0,1>>, <<3,5>>, <<0,-1>>, <<1,3>>, <<1,-4>>, <<1,-2>>, <<1,-3>>,
     <<1,5>>, <<0,2>>, <<1,4>>, <<0,0>>, <<3,5>>, <<2,-3>>, <<0,-1>>, <<1,-1>>,
     <<3,3>>, <<0,2>>, <<0,1>>, <<1,-3>>, <<2,0>>, <<1,-2>>, <<1,3>>, <<1,-4>>,
     <<3,5>>, <<1,4>>, <<0,1>>, <<0,-1>>, <<1,-3>>, <<3,3>>, <<3,-3>>, <<3,1>>,
     <<1,2>>, <<3,5>>, <<3,4>>, <<1,-2>>, <<1,-4>>, <<1,-3>>, <<1,3>>,
     <<1,-4>>, <<0,-1>>, <<1,-1>>, <<1,-1>>, <<0,0>>, <<0,3>>, <<0,4>>,
     <<3,5>>, <<0,1>>, <<2,4>>, <<0,1>>, <<0,3>>, <<0,-2>>, <<0,4>>, <<1,-4>>,
     <<1,0>>, <<1,2>>, <<0,-2>>, <<2,-3>>, <<0,0>>, <<0,1>>, <<3,3>>, <<0,-2>>,
     <<1,-4>>, <<1,0>>, <<1,5>>, <<0,1>>, <<1,-2>>, <<1,4>>, <<3,3>>, <<3,-3>>,
     <<1,5>>, <<2,2>>, <<1,5>>, <<0,-1>>, <<0,-1>>, <<1,-4>>
  >>

\* The actions that arrive for a piece placed with `turns` and `shift`.
MarathonKeys(turns, shift) ==
  << "Tick" >> \o Run("Rotate", turns)
     \o Run("MoveLeft", IF shift < 0 THEN -shift ELSE 0)
     \o Run("MoveRight", IF shift > 0 THEN shift ELSE 0)
     \o << "HardDrop" >>

InitMarathon ==
  /\ opening = 0
  /\ state = initialState(MarathonRNG)
  /\ pre = state
  /\ act = "Init"
  /\ pos = 0
  /\ free = 0

\* pos pieces are placed and free actions have arrived for the next one.
MarathonArrives(a) ==
  /\ pos < Len(MarathonPlan)
  /\ MarathonKeys(MarathonPlan[pos + 1][1], MarathonPlan[pos + 1][2])[free + 1] = a
  /\ pre' = state
  /\ act' = a
  /\ IF a = "HardDrop"
     THEN pos' = pos + 1 /\ free' = 0
     ELSE pos' = pos /\ free' = free + 1
  /\ UNCHANGED opening

MarathonTick == MarathonArrives("Tick") /\ state' = TickApply(state)
MarathonRotate == MarathonArrives("Rotate") /\ state' = RotateApply(state)
MarathonLeft == MarathonArrives("MoveLeft") /\ state' = MoveLeftApply(state)
MarathonRight == MarathonArrives("MoveRight") /\ state' = MoveRightApply(state)
MarathonDrop == MarathonArrives("HardDrop") /\ state' = HardDropApply(state)

\* The player lets go of the keys: Ticks go on arriving.
MarathonIdle ==
  /\ pos = Len(MarathonPlan)
  /\ free < MaxStall
  /\ state' = TickApply(state)
  /\ pre' = state
  /\ act' = "Tick"
  /\ free' = free + 1
  /\ UNCHANGED << opening, pos >>

NextMarathon == \/ MarathonTick \/ MarathonRotate \/ MarathonLeft
                \/ MarathonRight \/ MarathonDrop \/ MarathonIdle

SpecMarathon == InitMarathon /\ [][NextMarathon]_vars

\* C21: in every state that is not game over, dropTick is at least 1 and
\* currentTick counts from 0 up to, and never reaches, dropTick, whatever
\* level the score has reached; so Ticks that keep arriving always lead to
\* the next GameTick.
C21_DropTickPositive ==
  ~state.gameEnd =>
     /\ state.dropTick >= 1
     /\ 0 <= state.currentTick
     /\ state.currentTick < state.dropTick

\* The active piece of s has no cubes or four of one colour, all of them
\* between the walls and above the floor, none of them on a settled cube.
ActivePieceValid(s) ==
  /\ Len(s.currentCubes) \in {0, 4}
  /\ \A i, j \in 1..Len(s.currentCubes) :
       s.currentCubes[i].colour = s.currentCubes[j].colour
  /\ \A i \in 1..Len(s.currentCubes) :
       /\ 0 <= s.currentCubes[i].x
       /\ s.currentCubes[i].x < GRID_WIDTH
       /\ s.currentCubes[i].y < GRID_HEIGHT
       /\ ~OccupiedAt(s.mainGridCubes, s.currentCubes[i].x, s.currentCubes[i].y)

\* C22: in every state that is not game over the active piece is valid.
C22_ActivePieceValid == ~state.gameEnd => ActivePieceValid(state)

\* C23: highScore is never below score; no action lowers it, Reset and the
\* actions applied to a game-over state included; and it changes only in a
\* step whose score rises above the highScore before the step.
C23_HighScore ==
  /\ state.highScore >= state.score
  /\ state.highScore >= pre.highScore
  /\ state.highScore # pre.highScore =>
       /\ state.score > pre.score
       /\ state.score > pre.highScore

\* An action applied to a game-over state counts a row: the score rises
\* above the highScore and the highScore follows it.
C23_Witness ==
  /\ pre.gameEnd
  /\ state.score > pre.highScore
  /\ state.highScore = state.score
  /\ state.highScore > pre.highScore

-----------------------------------------------------------------------------
\* A game nobody plays.  From the initial State only Ticks arrive until the
\* game is over; then MaxWait Ticks at most arrive before the player presses
\* Reset, which the player does MaxResets times at most.  pos counts the Ticks
\* that arrived since the game ended and free the Resets.

MaxResets == 1
MaxWait == 60

InitIdle ==
  /\ opening \in 1..7
  /\ state = initialState(opening - 1)
  /\ pre = state
  /\ act = "Init"
  /\ pos = 0
  /\ free = 0

IdleTick ==
  /\ state.gameEnd => pos < MaxWait
  /\ state' = TickApply(state)
  /\ pre' = state
  /\ act' = "Tick"
  /\ pos' = IF state.gameEnd THEN pos + 1 ELSE 0
  /\ UNCHANGED << opening, free >>

IdleReset ==
  /\ state.gameEnd
  /\ free < MaxResets
  /\ state' = ResetApply(state)
  /\ pre' = state
  /\ act' = "Reset"
  /\ pos' = 0
  /\ free' = free + 1
  /\ UNCHANGED opening

NextIdle == IdleTick \/ IdleReset

\* The arrival of a Tick, whatever Tick.apply makes of it: the step of
\* IdleTick as pre and act record it.
IdleTickArrives ==
  /\ state.gameEnd => pos < MaxWait
  /\ pre' = state
  /\ act' = "Tick"

\* tick$ is an interval that never completes: Ticks go on arriving.
SpecIdle ==
  InitIdle /\ [][NextIdle]_vars /\ WF_<<pre, act>>(IdleTickArrives)

\* A piece is falling in a game that is not over.
IdlePieceFalls == ~state.gameEnd /\ Len(state.currentCubes) > 0

\* The last step was a GameTick that settled the falling piece where it was.
IdlePieceLanded ==
  /\ TickLanding
  /\ \A i \in 1..Len(pre.currentCubes) :
       OccupiedAt(state.mainGridCubes, pre.currentCubes[i].x,
                  pre.currentCubes[i].y)

\* The last step was a Reset of a game that was over.
IdleResetDone == act = "Reset" /\ pre.gameEnd

\* C24: when only Ticks arrive, every piece that falls lands and the game
\* comes to be over; after a Reset of that game the Ticks spawn a piece, the
\* piece lands and the new game comes to be over in its turn.
C24_IdleGameEnds ==
  /\ <>state.gameEnd
  /\ IdlePieceFalls ~> IdlePieceLanded
  /\ IdleResetDone ~> (IdlePieceFalls /\ state.updateGrid)
  /\ IdleResetDone ~> state.gameEnd

\* The game after a Reset is over, ended by the landing of a piece.
C24_Witness ==
  /\ free > 0
  /\ state.gameEnd
  /\ IdlePieceLanded

=============================================================================
